---------------------------- MODULE Spec2Model ----------------------------
(***************************************************************************)
(* The selection -> generation -> result-history lifecycle of the App      *)
(* component (src/unnamed/part_000), with the types of src/types.ts.       *)
(*                                                                         *)
(* Each React event handler is one atomic action: the handler body, with   *)
(* every state setter it calls, runs to completion before the next event.  *)
(* handleVisualize suspends at its await, so it is two steps: the part up  *)
(* to the call of generateVisualFromContext, and the continuation (try     *)
(* body after the await, or the catch block) that runs when the promise    *)
(* settles.  The continuation is a closure: it keeps the selectedText of   *)
(* the render in which the button was clicked.                             *)
(*                                                                         *)
(* Encoding.  A string the code inspects (the selection) is a sequence of  *)
(* one-character strings, '' being << >>.  A value of type T | null is     *)
(* Null (<< >>) or Some(v) (<< v >>).                                      *)
(***************************************************************************)
EXTENDS Integers, Sequences, FiniteSets, TLC

VARIABLES
    file,               \* useState<File | null>
    pdfUrl,             \* useState<string | null>
    selectedText,       \* useState<string>
    selectionPosition,  \* useState<{x, y} | null>
    results,            \* useState<VisualResult[]>
    status,             \* useState<GenerationStatus>
    error,              \* useState<string | null>
    showHistory,        \* useState(false)
    pending,            \* the calls of generateVisualFromContext not yet settled
    calls               \* how many calls of generateVisualFromContext were made

vars == <<file, pdfUrl, selectedText, selectionPosition, results, status,
          error, showHistory, pending, calls>>

----------------------------------------------------------------------------
(* Bounds of the model *)

\* Calls of the generation service in one behaviour.
MaxCalls == 2
\* Longest run of non-blank characters in a selection the user makes.
MaxBody == 6
\* Most blanks on either side of a selection.
MaxPad == 1

----------------------------------------------------------------------------
(* Values *)

Null == << >>
Some(v) == <<v>>

\* enum GenerationStatus
IDLE == "IDLE"
LOADING == "LOADING"
SUCCESS == "SUCCESS"
ERROR == "ERROR"
GenerationStatus == {IDLE, LOADING, SUCCESS, ERROR}

\* The text.length > 5 of handleMouseUp.
MinSelectionLength == 5

InvalidFileMessage == "Please select a valid PDF file."
GenerationFailedMessage == "Failed to generate visualization. Please try again."

\* What e.target.files?.[0] can be: a PDF, another file.
PdfFile == [name |-> "paper.pdf", type |-> "application/pdf"]
OtherFile == [name |-> "notes.txt", type |-> "text/plain"]
Files == {PdfFile, OtherFile}

\* URL.createObjectURL(selectedFile)
createObjectURL(f) == <<"blob", f.name>>

----------------------------------------------------------------------------
(* Strings: String.prototype.trim *)

Blank == " "

RECURSIVE trimStart(_)
trimStart(s) ==
    IF s = << >> THEN s
    ELSE IF Head(s) = Blank THEN trimStart(Tail(s)) ELSE s

RECURSIVE trimEnd(_)
trimEnd(s) ==
    IF s = << >> THEN s
    ELSE IF s[Len(s)] = Blank THEN trimEnd(SubSeq(s, 1, Len(s) - 1)) ELSE s

trim(s) == trimEnd(trimStart(s))

\* n copies of the character c
Repeat(c, n) == [i \in 1..n |-> c]

\* The selections the user makes: a run of letters, or letters with one blank
\* inside (of length 5 and 6), with up to MaxPad blanks before it, after it, or
\* on both sides.
Bodies ==
    {Repeat("a", n) : n \in 0..MaxBody}
        \cup {Repeat("a", 3) \o <<Blank>> \o Repeat("b", n) : n \in 1..2}

Pads == {<<0, 0>>} \cup UNION {{<<k, 0>>, <<0, k>>, <<k, k>>} : k \in 1..MaxPad}

Selections ==
    {Repeat(Blank, p[1]) \o b \o Repeat(Blank, p[2]) : p \in Pads, b \in Bodies}

\* The bounding rectangles range.getBoundingClientRect() returns.
Rects == {[left |-> 100, top |-> 50, width |-> 40]}

\* What the generation service resolves with: { imageUrl, explanation }.
Payloads == {[imageUrl |-> "http://x/img.png", explanation |-> "..."]}

\* Math.random().toString(36).substr(2, 9): strings of up to nine base-36
\* digits; nothing in the code makes two draws differ.
RandomIds == {"k3x9q0z1m", "p7c2v5b8n"}

\* Date.now()
Now == {1700000000}


----------------------------------------------------------------------------
(* Result History: the three updaters handed to setResults *)

\* prev => [newResult, ...prev]
insert(newResult, prev) == <<newResult>> \o prev

\* prev.filter(r => r.id !== id)
RECURSIVE filterOutId(_, _)
filterOutId(prev, id) ==
    IF prev = << >> THEN << >>
    ELSE IF Head(prev).id # id
         THEN <<Head(prev)>> \o filterOutId(Tail(prev), id)
         ELSE filterOutId(Tail(prev), id)

\* prev => [res, ...prev.filter(p => p.id !== res.id)]
promote(res, prev) == <<res>> \o filterOutId(prev, res.id)

\* prev => prev.filter(r => r.id !== results[0].id)
remove(id, prev) == filterOutId(prev, id)

----------------------------------------------------------------------------
(* Initial state: the useState initialisers *)

Init ==
    /\ file = Null
    /\ pdfUrl = Null
    /\ selectedText = << >>
    /\ selectionPosition = Null
    /\ results = << >>
    /\ status = IDLE
    /\ error = Null
    /\ showHistory = FALSE
    /\ pending = {}
    /\ calls = 0

----------------------------------------------------------------------------
(* File upload.  Both file inputs are rendered only while !file. *)

\* What handleFileChange does with e.target.files?.[0].
fileChangeEffect(selectedFile) ==
    IF selectedFile # Null /\ selectedFile[1].type = "application/pdf"
    THEN /\ file' = selectedFile
         /\ pdfUrl' = Some(createObjectURL(selectedFile[1]))
         /\ error' = Null
    ELSE IF selectedFile # Null
    THEN /\ error' = Some(InvalidFileMessage)
         /\ UNCHANGED <<file, pdfUrl>>
    ELSE UNCHANGED <<file, pdfUrl, error>>

handleFileChange(selectedFile) ==
    /\ file = Null
    /\ fileChangeEffect(selectedFile)
    /\ UNCHANGED <<selectedText, selectionPosition, results, status,
                   showHistory, pending, calls>>

\* Variant: the history is left behind when the file is removed.
removeFileEffect_KeepsResults ==
    /\ file' = Null
    /\ pdfUrl' = Null
    /\ UNCHANGED results

\* The X next to the file name: setFile(null); setPdfUrl(null); setResults([]).
removeFileEffect ==
    /\ file' = Null
    /\ pdfUrl' = Null
    /\ results' = << >>

removeFile ==
    /\ file # Null
    /\ removeFileEffect
    /\ UNCHANGED <<selectedText, selectionPosition, status, error,
                   showHistory, pending, calls>>

----------------------------------------------------------------------------
(* Selection Tracker.  onMouseUp of the viewer, rendered only while file. *)

\* { x: rect.left + rect.width / 2, y: rect.top - 10 }
anchorOf(rect) == [x |-> rect.left + (rect.width \div 2), y |-> rect.top - 10]

\* Variant: text.length >= 5.
isLongEnough_AtLeast(text) == text # << >> /\ Len(text) >= MinSelectionLength

\* text && text.length > 5
isLongEnough(text) == text # << >> /\ Len(text) > MinSelectionLength

\* selection?.toString().trim(): selection is Null when window.getSelection()
\* is null, else Some(s) with s = selection.toString().  undefined and '' are
\* both falsy in the test that follows, and are both << >> here.
\* trim over the selections of the model, computed once.
Trimmed == [s \in Selections |-> trim(s)]

selectionText(selection) ==
    IF selection = Null THEN << >> ELSE Trimmed[selection[1]]

\* The body of handleMouseUp.  A non-empty selection has a range, so rect is
\* defined in the first branch.
mouseUpEffect(selection, rect) ==
    LET text == selectionText(selection)
    IN  IF isLongEnough(text)
        THEN /\ selectedText' = text
             /\ selectionPosition' = Some(anchorOf(rect))
        ELSE /\ selectedText' = << >>
             /\ selectionPosition' = Null

\* Variant: a selection change drops the calls in flight and their status.
handleMouseUp_Supersedes(selection, rect) ==
    /\ file # Null
    /\ mouseUpEffect(selection, rect)
    /\ pending' = {}
    /\ status' = IF status = LOADING THEN IDLE ELSE status
    /\ UNCHANGED <<file, pdfUrl, results, error, showHistory, calls>>

handleMouseUp(selection, rect) ==
    /\ file # Null
    /\ mouseUpEffect(selection, rect)
    /\ UNCHANGED <<file, pdfUrl, results, status, error, showHistory,
                   pending, calls>>

\* Declared in App and referenced by no handler and no element.
clearCurrentSelection ==
    /\ selectedText' = << >>
    /\ selectionPosition' = Null
    /\ UNCHANGED <<file, pdfUrl, results, status, error, showHistory,
                   pending, calls>>

----------------------------------------------------------------------------
(* Generation.  The "Visualize selection" button is rendered inside the    *)
(* viewer, only while selectionPosition is non-null.                       *)

\* handleVisualize up to the await: the state setters it calls.
submitEffect ==
    /\ status' = LOADING
    /\ error' = Null
    /\ selectionPosition' = Null
    /\ UNCHANGED selectedText

\* The call generateVisualFromContext(selectedText) and the closure waiting
\* for it, which keeps the selectedText of this render.
issueCall(text) ==
    /\ calls' = calls + 1
    /\ pending' = pending \cup {[call |-> calls + 1, text |-> text]}

handleVisualize ==
    /\ file # Null
    /\ selectionPosition # Null
    /\ calls < MaxCalls
    /\ IF selectedText = << >>
       THEN UNCHANGED vars
       ELSE /\ submitEffect
            /\ issueCall(selectedText)
            /\ UNCHANGED <<file, pdfUrl, results, showHistory>>

\* Variant: the text is read from the state when the call returns, not from
\* the closure.
newResult_CurrentSelection(c, payload, id, now) ==
    [id |-> id, text |-> selectedText, imageUrl |-> payload.imageUrl,
     explanation |-> payload.explanation, timestamp |-> now]

\* const newResult: VisualResult = { id, text: selectedText, imageUrl,
\*                                   explanation, timestamp }
newResult(c, payload, id, now) ==
    [id |-> id, text |-> c.text, imageUrl |-> payload.imageUrl,
     explanation |-> payload.explanation, timestamp |-> now]

\* The try body after the await.
resolvedEffect(c, payload, id, now) ==
    /\ results' = insert(newResult(c, payload, id, now), results)
    /\ status' = SUCCESS
    /\ UNCHANGED error

\* Variant: the catch block without its setError.
rejectedEffect_NoMessage ==
    /\ status' = ERROR
    /\ UNCHANGED error
    /\ UNCHANGED results

\* The catch block.
rejectedEffect ==
    /\ error' = Some(GenerationFailedMessage)
    /\ status' = ERROR
    /\ UNCHANGED results

visualizeResolved(c, payload, id, now) ==
    /\ c \in pending
    /\ pending' = pending \ {c}
    /\ resolvedEffect(c, payload, id, now)
    /\ UNCHANGED <<file, pdfUrl, selectedText, selectionPosition,
                   showHistory, calls>>

visualizeRejected(c) ==
    /\ c \in pending
    /\ pending' = pending \ {c}
    /\ rejectedEffect
    /\ UNCHANGED <<file, pdfUrl, selectedText, selectionPosition,
                   showHistory, calls>>

----------------------------------------------------------------------------
(* The results panel, the history drawer and the error toast *)

\* VisualCard onClose, rendered while results.length > 0.
closeCard ==
    /\ results # << >>
    /\ results' = remove(results[1].id, results)
    /\ UNCHANGED <<file, pdfUrl, selectedText, selectionPosition, status,
                   error, showHistory, pending, calls>>

\* onClick of the i-th entry of results.slice(1), rendered while showHistory.
promoteEntry(i) ==
    /\ showHistory
    /\ i \in 2..Len(results)
    /\ results' = promote(results[i], results)
    /\ showHistory' = FALSE
    /\ UNCHANGED <<file, pdfUrl, selectedText, selectionPosition, status,
                   error, pending, calls>>

\* The History button of the header: setShowHistory(!showHistory).
toggleHistory ==
    /\ showHistory' = ~showHistory
    /\ UNCHANGED <<file, pdfUrl, selectedText, selectionPosition, results,
                   status, error, pending, calls>>

\* The X of the drawer: setShowHistory(false).
closeHistory ==
    /\ showHistory
    /\ showHistory' = FALSE
    /\ UNCHANGED <<file, pdfUrl, selectedText, selectionPosition, results,
                   status, error, pending, calls>>

\* The X of the error toast, rendered while error: setError(null).
dismissError ==
    /\ error # Null
    /\ error' = Null
    /\ UNCHANGED <<file, pdfUrl, selectedText, selectionPosition, results,
                   status, showHistory, pending, calls>>

----------------------------------------------------------------------------
(* The events *)

FileChange == \E f \in {Null} \cup {Some(x) : x \in Files} : handleFileChange(f)

MouseUp ==
    \E s \in {Null} \cup {Some(x) : x \in Selections}, r \in Rects :
        handleMouseUp(s, r)

Resolved ==
    \E c \in pending, p \in Payloads, id \in RandomIds, now \in Now :
        visualizeResolved(c, p, id, now)

Rejected == \E c \in pending : visualizeRejected(c)

Promote == \E i \in 1..MaxCalls : promoteEntry(i)

Next ==
    \/ FileChange
    \/ removeFile
    \/ MouseUp
    \/ handleVisualize
    \/ Resolved
    \/ Rejected
    \/ closeCard
    \/ Promote
    \/ toggleHistory
    \/ closeHistory
    \/ dismissError

Spec == Init /\ [][Next]_vars

\* The service answers every call: each pending call is settled in the end.
Settle(n) ==
    \E c \in pending :
        /\ c.call = n
        /\ \/ visualizeRejected(c)
           \/ \E p \in Payloads, id \in RandomIds, now \in Now :
                visualizeResolved(c, p, id, now)

LiveSpec == Spec /\ \A n \in 1..MaxCalls : WF_vars(Settle(n))

----------------------------------------------------------------------------
(* Properties *)

inFlight(n) == \E c \in pending : c.call = n

ResolvedCall(c) ==
    \E p \in Payloads, id \in RandomIds, now \in Now :
        visualizeResolved(c, p, id, now)

\* C1: at most one generation call is in flight at any time.
C1_AtMostOneInFlight == Cardinality(pending) <= 1

\* C2: a submit from a state with a non-empty selection leads to status
\* Loading, the selected text reset to empty, the anchor reset to null, the
\* error cleared, and a call issued with the text that was selected.
C2_SubmitClearsSelection ==
    [][handleVisualize /\ selectedText # << >> =>
        /\ status' = LOADING
        /\ selectedText' = << >>
        /\ selectionPosition' = Null
        /\ error' = Null
        /\ \E c \in pending' \ pending : c.text = selectedText]_vars

\* C3: when a pending call returns Success, a result whose text is the text
\* captured at its submission is put at the head of the history, the former
\* entries follow it in their order, the length grows by one and the status
\* becomes Success.
C3_SuccessInsertsCapturedText ==
    [][\A c \in pending : ResolvedCall(c) =>
        /\ Len(results') = Len(results) + 1
        /\ Head(results').text = c.text
        /\ Tail(results') = results
        /\ status' = SUCCESS]_vars

\* A call succeeded for a text that is no longer the selection, and its
\* result stands before an older one.
C3_Witness ==
    /\ status = SUCCESS
    /\ Len(results) >= 2
    /\ Head(results).text # selectedText
    /\ Head(results).text # results[2].text

\* C4: when a pending call fails, the status becomes Error, the error
\* message is non-null and the history is what it was.
C4_FailureKeepsHistory ==
    [][\A c \in pending : visualizeRejected(c) =>
        /\ status' = ERROR
        /\ error' # Null
        /\ results' = results]_vars

\* A call failed while the history held a result.
C4_Witness ==
    /\ status = ERROR
    /\ error = Some(GenerationFailedMessage)
    /\ results # << >>

\* C5: the anchor is non-null iff the selected text is non-empty, and a
\* non-empty selected text has trimmed length greater than 5.
C5_AnchorIffText ==
    /\ selectionPosition # Null <=> selectedText # << >>
    /\ selectedText # << >> => Len(trim(selectedText)) > MinSelectionLength

\* C6: promoting an entry of the history puts it at the head with its fields
\* as they were, keeps the length, and keeps the other entries in their order.
C6_PromoteMovesToHead ==
    [][\A i \in 2..Len(results) : promoteEntry(i) =>
        /\ Head(results').id = results[i].id
        /\ Head(results') = results[i]
        /\ Len(results') = Len(results)
        /\ Tail(results') =
              SubSeq(results, 1, i - 1) \o SubSeq(results, i + 1, Len(results))]_vars

\* The blanks at the two ends of s: the pairs <<l, r>> such that s is l
\* blanks, then a text that neither starts nor ends with a blank, then r
\* blanks.
BlankEnds(s) ==
    {b \in (0..Len(s)) \X (0..Len(s)) :
        /\ b[1] + b[2] <= Len(s)
        /\ \A i \in 1..b[1] : s[i] = Blank
        /\ \A i \in (Len(s) - b[2] + 1)..Len(s) : s[i] = Blank
        /\ b[1] + b[2] < Len(s) =>
              s[b[1] + 1] # Blank /\ s[Len(s) - b[2]] # Blank}

\* Each selection without the blanks at its two ends.
WithoutBlankEnds ==
    [s \in Selections |->
        {SubSeq(s, b[1] + 1, Len(s) - b[2]) : b \in BlankEnds(s)}]

\* C7: a selection change with selection string s yields empty text and a
\* null anchor when the trimmed length of s is at most 5, and the trimmed s
\* with a non-null anchor when it is greater, whatever the state before.
C7_SelectionThreshold ==
    [][\A s \in Selections, r \in Rects : handleMouseUp(Some(s), r) =>
        \E t \in WithoutBlankEnds[s] :
            IF Len(t) <= 5
            THEN selectedText' = << >> /\ selectionPosition' = Null
            ELSE selectedText' = t /\ selectionPosition' # Null]_vars

\* A selection of six letters between blanks was made: its trimmed text is
\* kept, with an anchor.
C7_Witness ==
    /\ selectedText = Repeat("a", 6)
    /\ selectionPosition \in {Some(anchorOf(r)) : r \in Rects}

\* C8: no two entries of the history have the same id.
C8_DistinctIds ==
    \A i, j \in 1..Len(results) : i # j => results[i].id # results[j].id

\* C9, as stated: selection change, submit, Failure response, error
\* dismissal, file upload, removal of the uploaded file and toggling the
\* history drawer all leave the history as it is.
C9_OtherEventsKeepHistory ==
    [][(FileChange \/ removeFile \/ MouseUp \/ handleVisualize \/ Rejected
          \/ dismissError \/ toggleHistory \/ closeHistory)
        => results' = results]_vars

\* C9, amended: removing the uploaded file empties the history; selection
\* change, submit, Failure response, error dismissal, file upload and
\* toggling the history drawer leave it as it is.
C9_OnlyFileRemovalClearsHistory ==
    /\ [][removeFile => results' = << >>]_vars
    /\ [][(FileChange \/ MouseUp \/ handleVisualize \/ Rejected
             \/ dismissError \/ toggleHistory \/ closeHistory)
           => results' = results]_vars

\* The file was removed after a generation succeeded: the history is empty,
\* the status still Success, the file gone.
C9_Witness ==
    /\ file = Null
    /\ results = << >>
    /\ status = SUCCESS
    /\ calls = MaxCalls
    /\ pending = {}

\* C10: a selection change made while a call is pending leaves the status
\* (Loading) and the pending calls as they are; a pending call leaves only
\* by completing into Success, with a result for its captured text at the
\* head of the history, or into Error; and, the service answering every
\* call, every call that was submitted completes.
C10_InFlightRequestCompletes ==
    /\ [][MouseUp /\ pending # {} =>
            /\ status' = status
            /\ pending' = pending]_vars
    /\ [][\A c \in pending : c \notin pending' =>
            \/ /\ status' = SUCCESS
               /\ results' # << >>
               /\ Head(results').text = c.text
            \/ /\ status' = ERROR
               /\ error' # Null]_vars
    /\ \A n \in 1..MaxCalls : inFlight(n) ~> ~inFlight(n)

\* A selection was made while a call was pending: the button is shown again
\* for a text other than the one the call was submitted with.
C10_Witness ==
    /\ status = LOADING
    /\ pending # {}
    /\ selectionPosition # Null
    /\ \E c \in pending : c.text # selectedText

\* C11: the status is Loading if and only if a generation call is pending.
C11_LoadingIffPending == status = LOADING <=> pending # {}

=============================================================================
